---- MODULE Spec2Model ----
(***************************************************************************)
(* A model of ppt_to_pdf_app.py: the foreground (MainWindow and its        *)
(* ThumbnailWidgets), the single reusable WorkerThread with its four task  *)
(* bodies, and the queued signals that carry events from the worker to     *)
(* the foreground.                                                         *)
(*                                                                         *)
(* An image file is identified by its base name.  In the specifications of *)
(* the tasks file k stands for the name img<k+8>: img9, img10, img11, ...  *)
(***************************************************************************)
EXTENDS Integers, Sequences, FiniteSets, TLC

\* ------------------------------------------------------------------ bounds
\* Number of image files a folder may hold in the whole-program specification.
MaxFiles == 2
\* Number of candidates handed to a detector in the per-task specifications.
MaxCands == 3

Files == 1 .. MaxFiles
Cands == 1 .. MaxCands

\* --------------------------------------------------------- program constants
\* slider_wt: range 10..100, initial value 80; the threshold is value/100.
SliderWtDefault == 80
SliderWtMax == 100
\* Match thresholds (hundredths) the model lets the user choose.
WtThresholds == {SliderWtDefault, SliderWtMax}
\* Maximum match scores (hundredths) a candidate may have: below, on and above
\* the default threshold, the last one on the maximum threshold.
Scores == {SliderWtDefault - 1, SliderWtDefault, SliderWtMax}

\* Perceptual hashes are sets of the bit positions that are 1 (64-bit phash).
Hashes == {{}, 1 .. 3, 1 .. 23}
\* slider_at: range 0..30; the values the model lets the user choose.
AtThresholds == {3, 10}

\* imagehash's `hash_prev - hash_curr`: the number of differing bits.
HammingDistance(a, b) == Cardinality((a \ b) \cup (b \ a))

\* Length of the names whose order is compared.
MaxNameLen == 2

\* ------------------------------------------------------------------- state
VARIABLES
    \* MainWindow
    image_folder,       \* "" or the chosen folder
    thumbnail_widgets,  \* file name -> [selected, filtered]
    all_files_paths,    \* list of the files of the last files_loaded event
    controls_enabled,   \* btn_select_folder and tabs are enabled
    last_op,            \* history: the operation that last wrote thumbnail_widgets
    \* WorkerThread attributes
    task_type,
    params,
    \* the worker thread's position and the locals of the running task body
    pc,
    idx,
    all_files,
    excluded_set,
    hash_cache,
    image_objects,
    \* signals: every event emitted since the last dispatch, and how many of
    \* them the foreground's event loop has handled
    events,
    delivered,
    \* environment
    disk,               \* file -> what a read of it may return
    pdf_file,           \* pages of the document the current task has written
    \* the worker's interruption flag, set by closeEvent
    interruption_requested

widget_vars == <<thumbnail_widgets, last_op>>
fg_vars == <<image_folder, thumbnail_widgets, last_op, all_files_paths, controls_enabled>>
attr_vars == <<task_type, params>>
local_vars == <<idx, all_files, excluded_set, hash_cache, image_objects>>
vars == <<image_folder, thumbnail_widgets, last_op, all_files_paths, controls_enabled,
          task_type, params, pc, idx, all_files, excluded_set, hash_cache,
          image_objects, events, delivered, disk, pdf_file,
          interruption_requested>>

\* ------------------------------------------------------------ natural order
\* A name is a sequence of one-character strings.
DigitChars == <<"0", "1", "2", "3", "4", "5", "6", "7", "8", "9">>
IsDigit(c) == \E d \in 1 .. Len(DigitChars) : DigitChars[d] = c
DigitVal(c) == (CHOOSE d \in 1 .. Len(DigitChars) : DigitChars[d] = c) - 1

\* The characters of the model in the order of their code points.
CodeOrder == DigitChars \o <<"A", "B", "a", "b", "g", "i", "m">>
Ord(c) == CHOOSE k \in 1 .. Len(CodeOrder) : CodeOrder[k] = c

\* str.lower() on one character, and on a string.
LowerChar(c) == CASE c = "A" -> "a" [] c = "B" -> "b" [] OTHER -> c
Lower(t) == [k \in 1 .. Len(t) |-> LowerChar(t[k])]

\* int(text) of a string of digits.
RECURSIVE ToInt(_)
ToInt(t) ==
    IF t = <<>> THEN 0
    ELSE 10 * ToInt(SubSeq(t, 1, Len(t) - 1)) + DigitVal(t[Len(t)])

\* The length of the longest prefix of s that is all digits (all non-digits).
RECURSIVE PrefixLen(_, _)
PrefixLen(s, digits) ==
    IF s = <<>> \/ IsDigit(s[1]) # digits THEN 0
    ELSE 1 + PrefixLen(Tail(s), digits)

\* re.split(r'(\d+)', s): the text before the first digit run (maybe empty),
\* then alternately a digit run and the text after it (maybe empty).
RECURSIVE ReSplit(_)
ReSplit(s) ==
    LET n == PrefixLen(s, FALSE)
        rest == SubSeq(s, n + 1, Len(s))
        m == PrefixLen(rest, TRUE)
    IN IF rest = <<>> THEN <<SubSeq(s, 1, n)>>
       ELSE <<SubSeq(s, 1, n), SubSeq(rest, 1, m)>>
                \o ReSplit(SubSeq(rest, m + 1, Len(rest)))

\* The elements of a key: a Python int or a Python str.
PyInt(n) == [int |-> TRUE, n |-> n, text |-> <<>>]
PyStr(t) == [int |-> FALSE, n |-> 0, text |-> t]

\* text.isdigit()
isdigit(t) == t # <<>> /\ \A k \in 1 .. Len(t) : IsDigit(t[k])

\* Faulty variant of natural_sort_key: digit runs are kept as text.
natural_sort_key_text_digits(s) ==
    LET parts == ReSplit(s)
    IN [k \in 1 .. Len(parts) |-> PyStr(Lower(parts[k]))]

natural_sort_key(s) ==
    LET parts == ReSplit(s)
    IN [k \in 1 .. Len(parts) |->
          IF isdigit(parts[k]) THEN PyInt(ToInt(parts[k])) ELSE PyStr(Lower(parts[k]))]

\* `<` of two str: the first differing character decides by code point, and a
\* proper prefix is smaller.
RECURSIVE StrLess(_, _)
StrLess(t, u) ==
    IF u = <<>> THEN FALSE
    ELSE IF t = <<>> THEN TRUE
    ELSE IF t[1] # u[1] THEN Ord(t[1]) < Ord(u[1])
    ELSE StrLess(Tail(t), Tail(u))

\* `<` of two list elements; int against str raises TypeError.
Comparable(x, y) == x.int = y.int
ElemLess(x, y) == IF x.int THEN x.n < y.n ELSE StrLess(x.text, y.text)

\* `<` of two lists: the first differing element decides, and a proper prefix
\* is smaller.
RECURSIVE KeyLess(_, _)
KeyLess(a, b) ==
    IF b = <<>> THEN FALSE
    ELSE IF a = <<>> THEN TRUE
    ELSE IF a[1] # b[1] THEN ElemLess(a[1], b[1])
    ELSE KeyLess(Tail(a), Tail(b))

\* list.sort(key=natural_sort_key): a stable sort.
RECURSIVE InsertByKey(_, _)
InsertByKey(x, sorted) ==
    IF sorted = <<>> THEN <<x>>
    ELSE IF KeyLess(natural_sort_key(x), natural_sort_key(sorted[1]))
         THEN <<x>> \o sorted
         ELSE <<sorted[1]>> \o InsertByKey(x, Tail(sorted))

RECURSIVE SortByKey(_)
SortByKey(names) ==
    IF names = <<>> THEN <<>>
    ELSE InsertByKey(names[Len(names)], SortByKey(SubSeq(names, 1, Len(names) - 1)))

\* The decimal numeral of n.
RECURSIVE Decimal(_)
Decimal(n) ==
    IF n < 10 THEN <<DigitChars[n + 1]>>
    ELSE Decimal(n \div 10) \o <<DigitChars[(n % 10) + 1]>>

\* The name file k stands for: img9, img10, img11, ...
FileName(k) == <<"i", "m", "g">> \o Decimal(k + 8)

FileKey == [f \in Files \cup Cands |-> natural_sort_key(FileName(f))]

\* The files of S in the order the sort by natural_sort_key gives their names.
RECURSIVE SortNatural(_)
SortNatural(S) ==
    IF S = {} THEN <<>>
    ELSE LET m == CHOOSE x \in S :
                    \A y \in S \ {x} : KeyLess(FileKey[x], FileKey[y])
         IN <<m>> \o SortNatural(S \ {m})

Range(s) == {s[k] : k \in 1 .. Len(s)}

\* ---------------------------------------------------------- ThumbnailWidget
NoWidgets == [f \in {} |-> [selected |-> TRUE, filtered |-> FALSE]]
NoHashes == [f \in {} |-> {}]

\* Faulty variant of NewThumbnail: a new widget starts unselected.
NewThumbnail_unselected == [selected |-> FALSE, filtered |-> FALSE]

\* ThumbnailWidget.__init__: _is_selected = True, _is_filtered = False.
NewThumbnail == [selected |-> TRUE, filtered |-> FALSE]

\* Faulty variant of set_filtered: the selection is kept when the item is filtered.
set_filtered_keeps_selection(w, filtered) ==
    [selected |-> w.selected, filtered |-> filtered]

set_filtered(w, filtered) ==
    [selected |-> IF filtered THEN FALSE ELSE w.selected,
     filtered |-> filtered]

\* Faulty variant of set_selected: one setter that ignores `force` and always behaves
\* as the forced one.
set_selected_always_forced(w, selected, force) ==
    [selected |-> selected,
     filtered |-> IF selected THEN FALSE ELSE w.filtered]

\* Faulty variant of set_selected: the forced setter leaves the filtered flag alone.
set_selected_keeps_filter(w, selected, force) ==
    IF force
    THEN [selected |-> selected, filtered |-> w.filtered]
    ELSE IF selected
         THEN IF ~w.filtered THEN [w EXCEPT !.selected = TRUE] ELSE w
         ELSE [w EXCEPT !.selected = FALSE]

\* Faulty variant of set_selected: unselecting without force also clears the
\* filtered flag.
set_selected_unselect_unfilters(w, selected, force) ==
    IF force
    THEN [selected |-> selected,
          filtered |-> IF selected THEN FALSE ELSE w.filtered]
    ELSE IF selected
         THEN IF ~w.filtered THEN [w EXCEPT !.selected = TRUE] ELSE w
         ELSE [selected |-> FALSE, filtered |-> FALSE]

set_selected(w, selected, force) ==
    IF force
    THEN [selected |-> selected,
          filtered |-> IF selected THEN FALSE ELSE w.filtered]
    ELSE IF selected
         THEN IF ~w.filtered THEN [w EXCEPT !.selected = TRUE] ELSE w
         ELSE [w EXCEPT !.selected = FALSE]

\* ------------------------------------------------------------------ signals
Ev(sig, tag, item, files, excluded) ==
    [sig |-> sig, tag |-> tag, item |-> item, files |-> files, excluded |-> excluded]

log_message(tag, item) == Ev("log_message", tag, item, <<>>, {})
files_loaded(paths) == Ev("files_loaded", "", 0, paths, {})
thumbnail_loaded(f) == Ev("thumbnail_loaded", "", f, <<>>, {})
processing_done(name, excluded) == Ev("processing_done", name, 0, <<>>, excluded)
pdf_done(status) == Ev("pdf_done", status, 0, <<>>, {})
loading_finished == Ev("loading_finished", "", 0, <<>>, {})

TerminalSigs == {"loading_finished", "processing_done", "pdf_done"}

emit(evs) == events' = events \o evs

\* -------------------------------------------------------------- environment
\* disk[f] gives, for each kind of read, the set of results the read may have:
\* ok (the bytes decode as an image), score (the maximum normalised
\* cross-correlation with the template), hash (the perceptual hash).
AnyFile == [ok |-> BOOLEAN, score |-> Scores, hash |-> Hashes]

NoParams == [folder |-> "", file_list |-> <<>>, threshold |-> 0, invert_logic |-> FALSE]

NoLocals ==
    /\ idx' = 0
    /\ all_files' = <<>>
    /\ excluded_set' = {}
    /\ hash_cache' = NoHashes
    /\ image_objects' = <<>>

Init ==
    /\ image_folder = ""
    /\ thumbnail_widgets = NoWidgets
    /\ last_op = ""
    /\ all_files_paths = <<>>
    /\ controls_enabled = TRUE
    /\ task_type = ""
    /\ params = NoParams
    /\ pc = "idle"
    /\ idx = 0
    /\ all_files = <<>>
    /\ excluded_set = {}
    /\ hash_cache = NoHashes
    /\ image_objects = <<>>
    /\ events = <<>>
    /\ delivered = 0
    /\ disk = [f \in Files |-> AnyFile]
    /\ pdf_file = <<>>
    /\ interruption_requested = FALSE

\* ------------------------------------------------------- WorkerThread.run_task
\* Sets the attributes and calls QThread.start(), which starts nothing when the
\* thread is still running.  The event log restarts with what is still queued,
\* and nothing has been written by the new task.
run_task(t, p) ==
    /\ task_type' = t
    /\ params' = p
    /\ pc' = IF pc = "idle" THEN "run" ELSE pc
    /\ events' = SubSeq(events, delivered + 1, Len(events))
    /\ delivered' = 0
    /\ pdf_file' = <<>>

\* QThread.isRunning() of the worker: true from start() until run() has
\* returned, whether or not an interruption was requested.
isRunning == pc # "idle"

\* ------------------------------------------------ the foreground's event loop
\* Clicks and queued signals are handled by the event loop of the main thread,
\* which closeEvent blocks in worker.wait(); the window closes when the wait
\* returns.
EventLoopRuns == ~interruption_requested

\* ------------------------------------------------- MainWindow: selection ops
\* Faulty variant of get_selected_files: without the filtered argument the
\* items that are not filtered are collected instead of the selected ones.
get_selected_files_visible(filtered) ==
    SortNatural({f \in DOMAIN thumbnail_widgets :
                    IF filtered THEN thumbnail_widgets[f].filtered
                    ELSE ~thumbnail_widgets[f].filtered})

\* get_selected_files: the names of the selected (or of the filtered) widgets,
\* sorted by natural_sort_key.
get_selected_files(filtered) ==
    SortNatural({f \in DOMAIN thumbnail_widgets :
                    IF filtered THEN thumbnail_widgets[f].filtered
                    ELSE thumbnail_widgets[f].selected})

\* Faulty variant of mousePressEvent: the click uses the setter without force.
mousePressEvent_soft(f) ==
    /\ EventLoopRuns
    /\ f \in DOMAIN thumbnail_widgets
    /\ thumbnail_widgets' =
         [thumbnail_widgets EXCEPT
            ![f] = set_selected(@, ~thumbnail_widgets[f].selected, FALSE)]
    /\ last_op' = "click"
    /\ UNCHANGED <<image_folder, all_files_paths, controls_enabled, attr_vars, pc,
                   local_vars, events, delivered, disk, pdf_file,
                   interruption_requested>>

\* A left click on the thumbnail of f.
mousePressEvent(f) ==
    /\ EventLoopRuns
    /\ f \in DOMAIN thumbnail_widgets
    /\ thumbnail_widgets' =
         [thumbnail_widgets EXCEPT
            ![f] = set_selected(@, ~thumbnail_widgets[f].selected, TRUE)]
    /\ last_op' = "click"
    /\ UNCHANGED <<image_folder, all_files_paths, controls_enabled, attr_vars, pc,
                   local_vars, events, delivered, disk, pdf_file,
                   interruption_requested>>

ForEachWidget(selected, force) ==
    [f \in DOMAIN thumbnail_widgets |->
        set_selected(thumbnail_widgets[f], selected, force)]

reset_all_thumbnails ==
    /\ EventLoopRuns
    /\ DOMAIN thumbnail_widgets # {}
    /\ thumbnail_widgets' = ForEachWidget(TRUE, TRUE)
    /\ last_op' = "reset_all"
    /\ UNCHANGED <<image_folder, all_files_paths, controls_enabled, attr_vars, pc,
                   local_vars, events, delivered, disk, pdf_file,
                   interruption_requested>>

select_visible_thumbnails ==
    /\ EventLoopRuns
    /\ DOMAIN thumbnail_widgets # {}
    /\ thumbnail_widgets' = ForEachWidget(TRUE, FALSE)
    /\ last_op' = "select_visible"
    /\ UNCHANGED <<image_folder, all_files_paths, controls_enabled, attr_vars, pc,
                   local_vars, events, delivered, disk, pdf_file,
                   interruption_requested>>

deselect_all_thumbnails ==
    /\ EventLoopRuns
    /\ DOMAIN thumbnail_widgets # {}
    /\ thumbnail_widgets' = ForEachWidget(FALSE, FALSE)
    /\ last_op' = "deselect_all"
    /\ UNCHANGED <<image_folder, all_files_paths, controls_enabled, attr_vars, pc,
                   local_vars, events, delivered, disk, pdf_file,
                   interruption_requested>>

\* ---------------------------------------------------- MainWindow: requests
Folders == {"folder"}

select_folder ==
    /\ EventLoopRuns
    /\ controls_enabled
    /\ \E folder \in Folders :
         /\ image_folder' = folder
         /\ run_task("LOAD_FILES", [NoParams EXCEPT !.folder = folder])
    /\ thumbnail_widgets' = NoWidgets
    /\ last_op' = "clear_grid"
    /\ controls_enabled' = FALSE
    /\ UNCHANGED <<all_files_paths, local_vars, disk, interruption_requested>>

\* The template path exists (os.path.exists); whether it reads as an image is
\* found out by the task.
run_watermark_check ==
    /\ EventLoopRuns
    /\ controls_enabled
    /\ image_folder # ""
    /\ \E cb_wt_global \in BOOLEAN, invert_logic \in BOOLEAN, slider_wt \in WtThresholds :
         LET files_to_check == IF cb_wt_global THEN all_files_paths
                               ELSE get_selected_files(FALSE)
         IN /\ cb_wt_global \/ files_to_check # <<>>
            /\ run_task("WATERMARK_CHECK",
                        [folder |-> image_folder, file_list |-> files_to_check,
                         threshold |-> slider_wt, invert_logic |-> invert_logic])
    /\ controls_enabled' = FALSE
    /\ UNCHANGED <<image_folder, widget_vars, all_files_paths, local_vars, disk, interruption_requested>>

run_animation_check ==
    /\ EventLoopRuns
    /\ controls_enabled
    /\ image_folder # ""
    /\ LET selected_files == get_selected_files(FALSE)
       IN /\ Len(selected_files) >= 2
          /\ \E slider_at \in AtThresholds :
               run_task("ANIMATION_CHECK",
                        [folder |-> image_folder, file_list |-> selected_files,
                         threshold |-> slider_at, invert_logic |-> FALSE])
    /\ controls_enabled' = FALSE
    /\ UNCHANGED <<image_folder, widget_vars, all_files_paths, local_vars, disk, interruption_requested>>

run_create_pdf ==
    /\ EventLoopRuns
    /\ controls_enabled
    /\ image_folder # ""
    /\ LET final_list == get_selected_files(FALSE)
       IN /\ final_list # <<>>
          /\ run_task("CREATE_PDF",
                      [folder |-> image_folder, file_list |-> final_list,
                       threshold |-> 0, invert_logic |-> FALSE])
    /\ controls_enabled' = FALSE
    /\ UNCHANGED <<image_folder, widget_vars, all_files_paths, local_vars, disk, interruption_requested>>

\* ------------------------------------------------- MainWindow.closeEvent
\* With the worker running, the window asks it to stop and waits for it.  With
\* the worker idle the event is accepted at once and the program ends: no step.
closeEvent ==
    /\ EventLoopRuns
    /\ isRunning
    /\ interruption_requested' = TRUE
    /\ UNCHANGED <<fg_vars, attr_vars, pc, local_vars, events, delivered, disk,
                   pdf_file>>

\* ------------------------------------------------- MainWindow: signal slots
\* An event is queued and the event loop is there to handle it.
Pending == EventLoopRuns /\ delivered < Len(events)
HeadEvent == events[delivered + 1]

on_log_message ==
    /\ Pending /\ HeadEvent.sig = "log_message"
    /\ delivered' = delivered + 1
    /\ UNCHANGED <<fg_vars, attr_vars, pc, local_vars, events, disk, pdf_file,
                   interruption_requested>>

\* Faulty variant of on_files_loaded: the controls are enabled as soon as the list
\* of files has arrived.
on_files_loaded_enables_controls ==
    /\ Pending /\ HeadEvent.sig = "files_loaded"
    /\ all_files_paths' = HeadEvent.files
    /\ thumbnail_widgets' = [f \in Range(HeadEvent.files) |-> NewThumbnail]
    /\ last_op' = "files_loaded"
    /\ controls_enabled' = TRUE
    /\ delivered' = delivered + 1
    /\ UNCHANGED <<image_folder, attr_vars, pc, local_vars,
                   events, disk, pdf_file, interruption_requested>>

on_files_loaded ==
    /\ Pending /\ HeadEvent.sig = "files_loaded"
    /\ all_files_paths' = HeadEvent.files
    /\ thumbnail_widgets' = [f \in Range(HeadEvent.files) |-> NewThumbnail]
    /\ last_op' = "files_loaded"
    /\ delivered' = delivered + 1
    /\ UNCHANGED <<image_folder, controls_enabled, attr_vars, pc, local_vars,
                   events, disk, pdf_file,
                   interruption_requested>>

on_thumbnail_loaded ==
    /\ Pending /\ HeadEvent.sig = "thumbnail_loaded"
    /\ delivered' = delivered + 1
    /\ UNCHANGED <<fg_vars, attr_vars, pc, local_vars, events, disk, pdf_file,
                   interruption_requested>>

on_loading_finished ==
    /\ Pending /\ HeadEvent.sig = "loading_finished"
    /\ controls_enabled' = TRUE
    /\ delivered' = delivered + 1
    /\ UNCHANGED <<image_folder, widget_vars, all_files_paths, attr_vars, pc,
                   local_vars, events, disk, pdf_file,
                   interruption_requested>>

\* Faulty variant of ApplyExcluded: every widget's filtered flag is set from the
\* result, so an item outside the result is un-filtered.
ApplyExcluded_refilters(widgets, excluded) ==
    [f \in DOMAIN widgets |-> set_filtered(widgets[f], f \in excluded)]

\* The loop of on_processing_done over thumbnail_widgets.
ApplyExcluded(widgets, excluded) ==
    [f \in DOMAIN widgets |->
        IF f \in excluded THEN set_filtered(widgets[f], TRUE) ELSE widgets[f]]

on_processing_done ==
    /\ Pending /\ HeadEvent.sig = "processing_done"
    /\ thumbnail_widgets' = ApplyExcluded(thumbnail_widgets, HeadEvent.excluded)
    /\ last_op' = "processing_done"
    /\ controls_enabled' = TRUE
    /\ delivered' = delivered + 1
    /\ UNCHANGED <<image_folder, all_files_paths, attr_vars, pc, local_vars,
                   events, disk, pdf_file,
                   interruption_requested>>

on_pdf_done ==
    /\ Pending /\ HeadEvent.sig = "pdf_done"
    /\ controls_enabled' = TRUE
    /\ delivered' = delivered + 1
    /\ UNCHANGED <<image_folder, widget_vars, all_files_paths, attr_vars, pc,
                   local_vars, events, disk, pdf_file,
                   interruption_requested>>

\* ------------------------------------------------------- WorkerThread.run
\* The started thread enters run() and branches on task_type.
run ==
    /\ pc = "run"
    /\ pc' = CASE task_type = "LOAD_FILES" -> "load"
               [] task_type = "WATERMARK_CHECK" -> "wm"
               [] task_type = "ANIMATION_CHECK" -> "anim"
               [] task_type = "CREATE_PDF" -> "pdf"
               [] OTHER -> "ret"
    /\ UNCHANGED <<fg_vars, attr_vars, local_vars, events, delivered, disk, pdf_file,
                   interruption_requested>>

\* run() returns: the thread is no longer running.
run_return ==
    /\ pc = "ret"
    /\ pc' = "idle"
    /\ UNCHANGED <<fg_vars, attr_vars, local_vars, events, delivered, disk, pdf_file,
                   interruption_requested>>

\* ------------------------------------------------ task 1: load_files_task
\* Faulty variant of load_files_task: loading_finished is emitted together with the
\* list of files, before the thumbnails are read.
load_files_task_finishes_early ==
    /\ pc = "load"
    /\ \/ /\ emit(<<log_message("loading", 0), log_message("folder_not_found", 0)>>)
          /\ pc' = "ret"
          /\ UNCHANGED local_vars
       \/ /\ emit(<<log_message("loading", 0), log_message("fatal", 0)>>)
          /\ pc' = "ret"
          /\ UNCHANGED local_vars
       \/ \E listing \in SUBSET (DOMAIN disk) :
            /\ all_files' = SortNatural(listing)
            /\ emit(<<log_message("loading", 0), files_loaded(SortNatural(listing)),
                      loading_finished>>)
            /\ idx' = 1
            /\ pc' = "load_loop"
            /\ UNCHANGED <<excluded_set, hash_cache, image_objects>>
    /\ UNCHANGED <<fg_vars, attr_vars, delivered, disk, pdf_file,
                   interruption_requested>>

\* The listing of the folder: FileNotFoundError is handled by a log line and a
\* return; any other error of os.listdir reaches the except of run().
load_files_task ==
    /\ pc = "load"
    /\ \/ /\ emit(<<log_message("loading", 0), log_message("folder_not_found", 0)>>)
          /\ pc' = "ret"
          /\ UNCHANGED local_vars
       \/ /\ emit(<<log_message("loading", 0), log_message("fatal", 0)>>)
          /\ pc' = "ret"
          /\ UNCHANGED local_vars
       \/ \E listing \in SUBSET (DOMAIN disk) :
            /\ all_files' = SortNatural(listing)
            /\ emit(<<log_message("loading", 0), files_loaded(SortNatural(listing))>>)
            /\ idx' = 1
            /\ pc' = "load_loop"
            /\ UNCHANGED <<excluded_set, hash_cache, image_objects>>
    /\ UNCHANGED <<fg_vars, attr_vars, delivered, disk, pdf_file,
                   interruption_requested>>

\* The test at the head of a pass of the loop over all_files:
\* `if not self.isRunning(): break`.
load_files_check ==
    /\ pc = "load_loop"
    /\ idx <= Len(all_files)
    /\ IF ~isRunning
       THEN idx' = Len(all_files) + 1 /\ pc' = pc
       ELSE idx' = idx /\ pc' = "load_item"
    /\ UNCHANGED <<fg_vars, attr_vars, all_files, excluded_set, hash_cache,
                   image_objects, events, delivered, disk, pdf_file,
                   interruption_requested>>

\* The rest of the pass: the read of the file and its event.
load_files_iter ==
    /\ pc = "load_item"
    /\ LET file_name == all_files[idx]
       IN \E ok \in disk[file_name].ok :
            emit(<<IF ok THEN thumbnail_loaded(file_name)
                   ELSE log_message("load_skipped", file_name)>>)
    /\ idx' = idx + 1
    /\ pc' = "load_loop"
    /\ UNCHANGED <<fg_vars, attr_vars, all_files, excluded_set, hash_cache,
                   image_objects, delivered, disk, pdf_file,
                   interruption_requested>>

load_files_done ==
    /\ pc = "load_loop"
    /\ idx > Len(all_files)
    /\ emit(<<log_message("load_complete", 0), loading_finished>>)
    /\ pc' = "ret"
    /\ NoLocals
    /\ UNCHANGED <<fg_vars, attr_vars, delivered, disk, pdf_file,
                   interruption_requested>>

\* -------------------------------------------- task 2: watermark_check_task
\* The decision taken for one candidate: ok is whether the candidate could be
\* opened and matched, max_val its best match score.
\* Faulty variant of WatermarkVerdict: a score equal to the threshold is not a match.
WatermarkVerdict_strict(ok, max_val, threshold, invert_logic) ==
    IF ~ok THEN "skipped"
    ELSE LET found_watermark == max_val > threshold
         IN IF invert_logic
            THEN IF found_watermark THEN "excluded_has" ELSE "kept_lacks"
            ELSE IF ~found_watermark THEN "excluded_lacks" ELSE "kept_has"

\* Faulty variant of WatermarkVerdict: the inverted branch tests the score strictly.
WatermarkVerdict_invert_strict(ok, max_val, threshold, invert_logic) ==
    IF ~ok THEN "skipped"
    ELSE IF invert_logic
         THEN IF max_val > threshold THEN "excluded_has" ELSE "kept_lacks"
         ELSE IF ~(max_val >= threshold) THEN "excluded_lacks" ELSE "kept_has"

WatermarkVerdict(ok, max_val, threshold, invert_logic) ==
    IF ~ok THEN "skipped"
    ELSE LET found_watermark == max_val >= threshold
         IN IF invert_logic
            THEN IF found_watermark THEN "excluded_has" ELSE "kept_lacks"
            ELSE IF ~found_watermark THEN "excluded_lacks" ELSE "kept_has"

\* Faulty variant of VerdictExcludes: the except branch only logs the candidate.
VerdictExcludes_fail_open(verdict) == verdict \in {"excluded_has", "excluded_lacks"}

\* The verdicts on which the candidate is added to excluded_set.
VerdictExcludes(verdict) == verdict \in {"skipped", "excluded_has", "excluded_lacks"}

\* Faulty variant of watermark_check_task: the pass goes over the files of the
\* folder instead of the list it was given.
watermark_check_task_lists_folder ==
    /\ pc = "wm"
    /\ \/ /\ emit(<<log_message("template_unreadable", 0),
                    processing_done("watermark", {})>>)
          /\ pc' = "ret"
          /\ UNCHANGED local_vars
       \/ /\ emit(<<log_message(IF params.invert_logic THEN "mode_exclude_has"
                                ELSE "mode_exclude_lacks", 0)>>)
          /\ all_files' = SortNatural(DOMAIN disk)
          /\ excluded_set' = {}
          /\ idx' = 1
          /\ pc' = "wm_loop"
          /\ UNCHANGED <<hash_cache, image_objects>>
    /\ UNCHANGED <<fg_vars, attr_vars, delivered, disk, pdf_file,
                   interruption_requested>>

\* Faulty variant of watermark_check_task: when the template cannot be read,
\* every candidate is reported as excluded.
watermark_check_task_excludes_all ==
    /\ pc = "wm"
    /\ \/ /\ emit(<<log_message("template_unreadable", 0),
                    processing_done("watermark", Range(params.file_list))>>)
          /\ pc' = "ret"
          /\ UNCHANGED local_vars
       \/ /\ emit(<<log_message(IF params.invert_logic THEN "mode_exclude_has"
                                ELSE "mode_exclude_lacks", 0)>>)
          /\ all_files' = params.file_list
          /\ excluded_set' = {}
          /\ idx' = 1
          /\ pc' = "wm_loop"
          /\ UNCHANGED <<hash_cache, image_objects>>
    /\ UNCHANGED <<fg_vars, attr_vars, delivered, disk, pdf_file,
                   interruption_requested>>

\* Reading the template: on failure the task ends with an empty result.
watermark_check_task ==
    /\ pc = "wm"
    /\ \/ /\ emit(<<log_message("template_unreadable", 0),
                    processing_done("watermark", {})>>)
          /\ pc' = "ret"
          /\ UNCHANGED local_vars
       \/ /\ emit(<<log_message(IF params.invert_logic THEN "mode_exclude_has"
                                ELSE "mode_exclude_lacks", 0)>>)
          /\ all_files' = params.file_list
          /\ excluded_set' = {}
          /\ idx' = 1
          /\ pc' = "wm_loop"
          /\ UNCHANGED <<hash_cache, image_objects>>
    /\ UNCHANGED <<fg_vars, attr_vars, delivered, disk, pdf_file,
                   interruption_requested>>

\* Faulty variant of watermark_check_iter: the worker marks the thumbnail of an
\* excluded candidate itself.
watermark_check_iter_marks_widget ==
    /\ pc = "wm_loop"
    /\ idx <= Len(all_files)
    /\ LET file_name == all_files[idx]
       IN \E ok \in disk[file_name].ok, max_val \in disk[file_name].score :
            LET verdict == WatermarkVerdict(ok, max_val, params.threshold,
                                            params.invert_logic)
            IN /\ excluded_set' = IF VerdictExcludes(verdict)
                                  THEN excluded_set \cup {file_name}
                                  ELSE excluded_set
               /\ thumbnail_widgets' =
                    IF VerdictExcludes(verdict) /\ file_name \in DOMAIN thumbnail_widgets
                    THEN [thumbnail_widgets EXCEPT ![file_name] = set_filtered(@, TRUE)]
                    ELSE thumbnail_widgets
               /\ emit(<<log_message(verdict, file_name)>>)
    /\ idx' = idx + 1
    /\ UNCHANGED <<image_folder, last_op, all_files_paths, controls_enabled,
                   attr_vars, pc, all_files, hash_cache, image_objects,
                   delivered, disk, pdf_file, interruption_requested>>

watermark_check_iter ==
    /\ pc = "wm_loop"
    /\ idx <= Len(all_files)
    /\ LET file_name == all_files[idx]
       IN \E ok \in disk[file_name].ok, max_val \in disk[file_name].score :
            LET verdict == WatermarkVerdict(ok, max_val, params.threshold,
                                            params.invert_logic)
            IN /\ excluded_set' = IF VerdictExcludes(verdict)
                                  THEN excluded_set \cup {file_name}
                                  ELSE excluded_set
               /\ emit(<<log_message(verdict, file_name)>>)
    /\ idx' = idx + 1
    /\ UNCHANGED <<fg_vars, attr_vars, pc, all_files, hash_cache, image_objects,
                   delivered, disk, pdf_file,
                   interruption_requested>>

watermark_check_done ==
    /\ pc = "wm_loop"
    /\ idx > Len(all_files)
    /\ emit(<<log_message("watermark_complete", 0),
              processing_done("watermark", excluded_set)>>)
    /\ pc' = "ret"
    /\ NoLocals
    /\ UNCHANGED <<fg_vars, attr_vars, delivered, disk, pdf_file,
                   interruption_requested>>

\* -------------------------------------------- task 3: animation_check_task
\* The hash of the first candidate; a failure there ends the task with an
\* empty result.  With fewer than two candidates nothing is hashed.
animation_check_task ==
    /\ pc = "anim"
    /\ LET valid_files == SortNatural(Range(params.file_list))
           head == <<log_message("animation_begin", 0),
                     log_message("animation_count", 0)>>
       IN IF Len(valid_files) > 1
          THEN \E ok \in disk[valid_files[1]].ok, h \in disk[valid_files[1]].hash :
                 IF ok
                 THEN /\ emit(head)
                      /\ all_files' = valid_files
                      /\ excluded_set' = {}
                      /\ hash_cache' = [f \in {valid_files[1]} |-> h]
                      /\ idx' = 2
                      /\ pc' = "anim_loop"
                      /\ UNCHANGED image_objects
                 ELSE /\ emit(head \o <<log_message("first_failed", valid_files[1]),
                                        processing_done("animation", {})>>)
                      /\ pc' = "ret"
                      /\ UNCHANGED local_vars
          ELSE /\ emit(head)
               /\ all_files' = valid_files
               /\ excluded_set' = {}
               /\ idx' = 2
               /\ pc' = "anim_loop"
               /\ UNCHANGED <<hash_cache, image_objects>>
    /\ UNCHANGED <<fg_vars, attr_vars, delivered, disk, pdf_file,
                   interruption_requested>>

\* Faulty variant of IsSimilar: the comparison is strict.
IsSimilar_strict(distance, threshold) == distance < threshold

\* `distance <= threshold`: the previous candidate is a near-duplicate.
IsSimilar(distance, threshold) == distance <= threshold

\* One pass of `for i in range(1, len(valid_files))`.  hash_cache[prev_file]
\* raises KeyError when the previous candidate's hash was never stored; the
\* except of the pass logs it, before the current candidate is hashed.
animation_check_iter ==
    /\ pc = "anim_loop"
    /\ idx <= Len(all_files)
    /\ LET prev_file == all_files[idx - 1]
           curr_file == all_files[idx]
       IN IF prev_file \notin DOMAIN hash_cache
          THEN /\ emit(<<log_message("compare_error", curr_file)>>)
               /\ UNCHANGED <<hash_cache, excluded_set>>
          ELSE \E ok \in disk[curr_file].ok, hash_curr \in disk[curr_file].hash :
                 IF ~ok
                 THEN /\ emit(<<log_message("compare_error", curr_file)>>)
                      /\ UNCHANGED <<hash_cache, excluded_set>>
                 ELSE LET distance == HammingDistance(hash_cache[prev_file], hash_curr)
                      IN /\ hash_cache' = [f \in DOMAIN hash_cache \cup {curr_file} |->
                                             IF f = curr_file THEN hash_curr
                                             ELSE hash_cache[f]]
                         /\ IF IsSimilar(distance, params.threshold)
                            THEN /\ excluded_set' = excluded_set \cup {prev_file}
                                 /\ emit(<<log_message("similar", curr_file)>>)
                            ELSE /\ excluded_set' = excluded_set
                                 /\ emit(<<log_message("different", curr_file)>>)
    /\ idx' = idx + 1
    /\ UNCHANGED <<fg_vars, attr_vars, pc, all_files, image_objects, delivered,
                   disk, pdf_file,
                   interruption_requested>>

\* Faulty variant of animation_check_done: the result is logged but never emitted.
animation_check_done_silent ==
    /\ pc = "anim_loop"
    /\ idx > Len(all_files)
    /\ emit(<<log_message("animation_complete", 0)>>)
    /\ pc' = "ret"
    /\ NoLocals
    /\ UNCHANGED <<fg_vars, attr_vars, delivered, disk, pdf_file,
                   interruption_requested>>

animation_check_done ==
    /\ pc = "anim_loop"
    /\ idx > Len(all_files)
    /\ emit(<<log_message("animation_complete", 0),
              processing_done("animation", excluded_set)>>)
    /\ pc' = "ret"
    /\ NoLocals
    /\ UNCHANGED <<fg_vars, attr_vars, delivered, disk, pdf_file,
                   interruption_requested>>

\* ------------------------------------------------- task 4: create_pdf_task
\* Faulty variant of create_pdf_task: a cover that cannot be opened is treated as
\* any other page, with a warning, and the task goes on.
create_pdf_task_skips_cover ==
    /\ pc = "pdf"
    /\ LET images_to_include == params.file_list
       IN IF images_to_include = <<>>
          THEN /\ emit(<<log_message("nothing_to_include", 0), pdf_done("fail")>>)
               /\ pc' = "ret"
               /\ UNCHANGED local_vars
          ELSE \E ok \in disk[images_to_include[1]].ok :
                 /\ emit(<<log_message("pdf_begin", 0),
                           log_message("add_cover", images_to_include[1])>>
                         \o IF ok THEN <<>>
                            ELSE <<log_message("page_skipped", images_to_include[1])>>)
                 /\ all_files' = images_to_include
                 /\ image_objects' = <<>>
                 /\ idx' = 2
                 /\ pc' = "pdf_loop"
                 /\ UNCHANGED <<excluded_set, hash_cache>>
    /\ UNCHANGED <<fg_vars, attr_vars, delivered, disk, pdf_file,
                   interruption_requested>>

\* Faulty variant of create_pdf_task: the empty list is reported as a success.
create_pdf_task_empty_succeeds ==
    /\ pc = "pdf"
    /\ LET images_to_include == params.file_list
       IN IF images_to_include = <<>>
          THEN /\ emit(<<log_message("nothing_to_include", 0), pdf_done("success")>>)
               /\ pc' = "ret"
               /\ UNCHANGED local_vars
          ELSE \E ok \in disk[images_to_include[1]].ok :
                 IF ok
                 THEN /\ emit(<<log_message("pdf_begin", 0),
                                log_message("add_cover", images_to_include[1])>>)
                      /\ all_files' = images_to_include
                      /\ image_objects' = <<>>
                      /\ idx' = 2
                      /\ pc' = "pdf_loop"
                      /\ UNCHANGED <<excluded_set, hash_cache>>
                 ELSE /\ emit(<<log_message("pdf_begin", 0),
                                log_message("add_cover", images_to_include[1]),
                                log_message("pdf_error", 0), pdf_done("fail")>>)
                      /\ pc' = "ret"
                      /\ UNCHANGED local_vars
    /\ UNCHANGED <<fg_vars, attr_vars, delivered, disk, pdf_file,
                   interruption_requested>>

\* The empty list, and the cover page: a cover that cannot be opened reaches
\* the outer except, which reports failure.
create_pdf_task ==
    /\ pc = "pdf"
    /\ LET images_to_include == params.file_list
       IN IF images_to_include = <<>>
          THEN /\ emit(<<log_message("nothing_to_include", 0), pdf_done("fail")>>)
               /\ pc' = "ret"
               /\ UNCHANGED local_vars
          ELSE \E ok \in disk[images_to_include[1]].ok :
                 IF ok
                 THEN /\ emit(<<log_message("pdf_begin", 0),
                                log_message("add_cover", images_to_include[1])>>)
                      /\ all_files' = images_to_include
                      /\ image_objects' = <<>>
                      /\ idx' = 2
                      /\ pc' = "pdf_loop"
                      /\ UNCHANGED <<excluded_set, hash_cache>>
                 ELSE /\ emit(<<log_message("pdf_begin", 0),
                                log_message("add_cover", images_to_include[1]),
                                log_message("pdf_error", 0), pdf_done("fail")>>)
                      /\ pc' = "ret"
                      /\ UNCHANGED local_vars
    /\ UNCHANGED <<fg_vars, attr_vars, delivered, disk, pdf_file,
                   interruption_requested>>

\* Faulty variant of create_pdf_iter: a page that cannot be opened is appended all
\* the same.
create_pdf_iter_keeps_failed ==
    /\ pc = "pdf_loop"
    /\ idx <= Len(all_files)
    /\ LET filename == all_files[idx]
       IN \E ok \in disk[filename].ok :
            IF ok
            THEN /\ image_objects' = Append(image_objects, filename)
                 /\ emit(<<log_message("add_page", filename)>>)
            ELSE /\ image_objects' = Append(image_objects, filename)
                 /\ emit(<<log_message("add_page", filename),
                           log_message("page_skipped", filename)>>)
    /\ idx' = idx + 1
    /\ UNCHANGED <<fg_vars, attr_vars, pc, all_files, excluded_set, hash_cache,
                   delivered, disk, pdf_file,
                   interruption_requested>>

\* One pass of `for filename in images_to_include[1:]`.
create_pdf_iter ==
    /\ pc = "pdf_loop"
    /\ idx <= Len(all_files)
    /\ LET filename == all_files[idx]
       IN \E ok \in disk[filename].ok :
            IF ok
            THEN /\ image_objects' = Append(image_objects, filename)
                 /\ emit(<<log_message("add_page", filename)>>)
            ELSE /\ image_objects' = image_objects
                 /\ emit(<<log_message("add_page", filename),
                           log_message("page_skipped", filename)>>)
    /\ idx' = idx + 1
    /\ UNCHANGED <<fg_vars, attr_vars, pc, all_files, excluded_set, hash_cache,
                   delivered, disk, pdf_file,
                   interruption_requested>>

\* cover.save(...): the cover followed by image_objects, or an error of the
\* write, which the outer except reports as failure (no document results).
create_pdf_save ==
    /\ pc = "pdf_loop"
    /\ idx > Len(all_files)
    /\ \/ /\ pdf_file' = <<all_files[1]>> \o image_objects
          /\ emit(<<log_message("pdf_created", 0), pdf_done("success")>>)
       \/ /\ pdf_file' = pdf_file
          /\ emit(<<log_message("pdf_error", 0), pdf_done("fail")>>)
    /\ pc' = "ret"
    /\ NoLocals
    /\ UNCHANGED <<fg_vars, attr_vars, delivered, disk, interruption_requested>>

\* ---------------------------------------------------------- specification
Foreground ==
    \/ \E f \in DOMAIN disk : mousePressEvent(f)
    \/ reset_all_thumbnails
    \/ select_visible_thumbnails
    \/ deselect_all_thumbnails
    \/ select_folder
    \/ run_watermark_check
    \/ run_animation_check
    \/ run_create_pdf

Slots ==
    \/ on_log_message
    \/ on_files_loaded
    \/ on_thumbnail_loaded
    \/ on_loading_finished
    \/ on_processing_done
    \/ on_pdf_done

Worker ==
    \/ run
    \/ run_return
    \/ load_files_task
    \/ load_files_check
    \/ load_files_iter
    \/ load_files_done
    \/ watermark_check_task
    \/ watermark_check_iter
    \/ watermark_check_done
    \/ animation_check_task
    \/ animation_check_iter
    \/ animation_check_done
    \/ create_pdf_task
    \/ create_pdf_iter
    \/ create_pdf_save

Next == Foreground \/ Slots \/ closeEvent \/ Worker

Spec == Init /\ [][Next]_vars

\* ------------------------------------------- per-task specifications
\* One task body run on inputs drawn from bounded sets: the catalog is the
\* candidate set, the request has been dispatched, and every read of a
\* candidate has one fixed result.
FixedFile(ok, score, hash) == [ok |-> {ok}, score |-> {score}, hash |-> {hash}]

Dispatched(t, p, cands, d) ==
    /\ image_folder = "folder"
    /\ thumbnail_widgets = [f \in cands |-> NewThumbnail]
    /\ last_op = "files_loaded"
    /\ all_files_paths = SortNatural(cands)
    /\ controls_enabled = FALSE
    /\ task_type = t
    /\ params = p
    /\ pc = "run"
    /\ idx = 0
    /\ all_files = <<>>
    /\ excluded_set = {}
    /\ hash_cache = NoHashes
    /\ image_objects = <<>>
    /\ events = <<>>
    /\ delivered = 0
    /\ disk = [f \in Cands |-> IF f \in cands THEN d[f] ELSE AnyFile]
    /\ pdf_file = <<>>
    /\ interruption_requested = FALSE

WatermarkFiles ==
    {FixedFile(FALSE, SliderWtDefault, {})}
        \cup {FixedFile(TRUE, s, {}) : s \in Scores}

InitWatermark ==
    \E cands \in SUBSET Cands, threshold \in WtThresholds, invert_logic \in BOOLEAN :
      \E d \in [cands -> WatermarkFiles] :
        Dispatched("WATERMARK_CHECK",
                   [folder |-> "folder", file_list |-> SortNatural(cands),
                    threshold |-> threshold, invert_logic |-> invert_logic],
                   cands, d)

NextWatermark ==
    \/ run
    \/ watermark_check_task
    \/ watermark_check_iter
    \/ watermark_check_done
    \/ run_return
    \/ on_log_message
    \/ on_processing_done

SpecWatermark == InitWatermark /\ [][NextWatermark]_vars

DedupFiles ==
    {FixedFile(FALSE, SliderWtDefault, {})}
        \cup {FixedFile(TRUE, SliderWtDefault, h) : h \in Hashes}

InitDedup ==
    \E cands \in SUBSET Cands, threshold \in AtThresholds :
      \E d \in [cands -> DedupFiles] :
        Dispatched("ANIMATION_CHECK",
                   [folder |-> "folder", file_list |-> SortNatural(cands),
                    threshold |-> threshold, invert_logic |-> FALSE],
                   cands, d)

NextDedup ==
    \/ run
    \/ animation_check_task
    \/ animation_check_iter
    \/ animation_check_done
    \/ run_return
    \/ on_log_message
    \/ on_processing_done

SpecDedup == InitDedup /\ [][NextDedup]_vars

PdfFiles == {FixedFile(ok, SliderWtDefault, {}) : ok \in BOOLEAN}

\* The list handed to create_pdf_task may be empty here: the task body has its
\* own test of the empty list.
InitPdf ==
    \E cands \in SUBSET Cands :
      \E d \in [cands -> PdfFiles] :
        Dispatched("CREATE_PDF",
                   [folder |-> "folder", file_list |-> SortNatural(cands),
                    threshold |-> 0, invert_logic |-> FALSE],
                   cands, d)

NextPdf ==
    \/ run
    \/ create_pdf_task
    \/ create_pdf_iter
    \/ create_pdf_save
    \/ run_return
    \/ on_log_message
    \/ on_pdf_done

SpecPdf == InitPdf /\ [][NextPdf]_vars

\* load_files_task at its sort, on a listing drawn from bounded sets: the
\* three names of the example in some order of arrival, or two names over
\* NameChars.
NameChars == {"a", "B", "0", "1", "2"}

RECURSIVE NamesOfLen(_)
NamesOfLen(n) ==
    IF n = 0 THEN {<<>>}
    ELSE {<<c>> \o t : c \in NameChars, t \in NamesOfLen(n - 1)}

Names == UNION {NamesOfLen(n) : n \in 1 .. MaxNameLen}

ExampleListing == << <<"i", "m", "g", "2">>, <<"i", "m", "g", "1", "0">>,
                     <<"i", "m", "g", "1">> >>
ExampleSorted == << <<"i", "m", "g", "1">>, <<"i", "m", "g", "2">>,
                    <<"i", "m", "g", "1", "0">> >>

Listings == {ExampleListing} \cup {<<a, b>> : a, b \in Names}

InitSort ==
    \E listing \in Listings :
        /\ image_folder = "folder"
        /\ thumbnail_widgets = NoWidgets
        /\ last_op = "clear_grid"
        /\ all_files_paths = <<>>
        /\ controls_enabled = FALSE
        /\ task_type = "LOAD_FILES"
        /\ params = [NoParams EXCEPT !.folder = "folder"]
        /\ pc = "load_sort"
        /\ idx = 0
        /\ all_files = listing
        /\ excluded_set = {}
        /\ hash_cache = NoHashes
        /\ image_objects = <<>>
        /\ events = <<log_message("loading", 0)>>
        /\ delivered = 0
        /\ disk = [n \in Range(listing) |-> AnyFile]
        /\ pdf_file = <<>>
        /\ interruption_requested = FALSE

\* `all_files.sort(key=natural_sort_key)` and the files_loaded event.
load_files_sort ==
    /\ pc = "load_sort"
    /\ all_files' = SortByKey(all_files)
    /\ emit(<<files_loaded(SortByKey(all_files))>>)
    /\ idx' = 1
    /\ pc' = "load_loop"
    /\ UNCHANGED <<fg_vars, attr_vars, excluded_set, hash_cache, image_objects,
                   delivered, disk, pdf_file,
                   interruption_requested>>

NextSort ==
    \/ load_files_sort
    \/ on_log_message
    \/ on_files_loaded

SpecSort == InitSort /\ [][NextSort]_vars

\* A folder is loaded over an earlier catalog.  The state before: every file
\* of the folder was loaded, a watermark pass over all of them excluded each
\* one, the result was applied and the worker thread has ended.
WatermarkLogExcludingAll(file_list) ==
    <<log_message("mode_exclude_lacks", 0)>>
        \o [k \in 1 .. Len(file_list) |-> log_message("excluded_lacks", file_list[k])]
        \o <<log_message("watermark_complete", 0),
             processing_done("watermark", Range(file_list))>>

InitReload ==
    /\ image_folder = "folder"
    /\ thumbnail_widgets = [f \in Files |-> set_filtered(NewThumbnail, TRUE)]
    /\ last_op = "processing_done"
    /\ all_files_paths = SortNatural(Files)
    /\ controls_enabled = TRUE
    /\ task_type = "WATERMARK_CHECK"
    /\ params = [folder |-> "folder", file_list |-> SortNatural(Files),
                 threshold |-> SliderWtDefault, invert_logic |-> FALSE]
    /\ pc = "idle"
    /\ idx = 0
    /\ all_files = <<>>
    /\ excluded_set = {}
    /\ hash_cache = NoHashes
    /\ image_objects = <<>>
    /\ events = WatermarkLogExcludingAll(SortNatural(Files))
    /\ delivered = Len(events)
    /\ disk = [f \in Files |-> AnyFile]
    /\ pdf_file = <<>>
    /\ interruption_requested = FALSE

NextReload ==
    \/ select_folder
    \/ run
    \/ load_files_task
    \/ load_files_check
    \/ load_files_iter
    \/ load_files_done
    \/ run_return
    \/ on_log_message
    \/ on_files_loaded
    \/ on_thumbnail_loaded
    \/ on_loading_finished

SpecReload == InitReload /\ [][NextReload]_vars

\* The excluded set of a completed watermark pass as a function of its
\* inputs, for files whose reads have one fixed result.
Decodable(f) == disk[f].ok = {TRUE}
ScoreOf(f) == CHOOSE v \in disk[f].score : TRUE
HashOf(f) == CHOOSE v \in disk[f].hash : TRUE

WatermarkExcluded(file_list, threshold, invert_logic) ==
    {f \in Range(file_list) :
        VerdictExcludes(WatermarkVerdict(Decodable(f), ScoreOf(f), threshold,
                                         invert_logic))}

\* =================================================================== claims
Selected(f) == thumbnail_widgets[f].selected
Filtered(f) == thumbnail_widgets[f].filtered
Catalog == DOMAIN thumbnail_widgets

\* C1: in every reachable state, after any sequence of clicks, applied
\* detection results, resets, select-visible, deselect-all and folder loads,
\* an item whose filtered flag is set is not selected.
FilteredImpliesNotSelected ==
    \A f \in Catalog : Filtered(f) => ~Selected(f)

\* C1 witness: a click has selected an item while another item is filtered.
FilteredBesideClicked ==
    /\ last_op = "click"
    /\ \E f \in Catalog : Filtered(f)
    /\ \E g \in Catalog : Selected(g)

\* C2: select_visible_thumbnails leaves the filtered flag of every item
\* unchanged, leaves every filtered item unselected, and selects every item
\* that is not filtered.
SelectVisibleIsSoft ==
    [][select_visible_thumbnails =>
        /\ DOMAIN thumbnail_widgets' = Catalog
        /\ \A f \in Catalog :
             /\ thumbnail_widgets'[f].filtered = Filtered(f)
             /\ Filtered(f) => ~thumbnail_widgets'[f].selected
             /\ ~Filtered(f) => thumbnail_widgets'[f].selected]_vars

\* C2 witness: select-visible has acted on a catalog that holds a filtered
\* item and an item that is not filtered.
SelectVisibleActed ==
    /\ last_op = "select_visible"
    /\ \E f \in Catalog : Filtered(f) /\ ~Selected(f)
    /\ \E g \in Catalog : ~Filtered(g) /\ Selected(g)

\* C3: reset_all_thumbnails leaves every item of the catalog selected and not
\* filtered, whatever the items' states were.
ResetAllYieldsDefault ==
    [][reset_all_thumbnails =>
        /\ DOMAIN thumbnail_widgets' = Catalog
        /\ \A f \in Catalog : thumbnail_widgets'[f] = NewThumbnail]_vars

\* C3 witness: reset has acted after a detection result that filtered an item
\* of the catalog was applied.
ResetAfterFiltering ==
    /\ last_op = "reset_all"
    /\ delivered > 0
    /\ events[delivered].sig = "processing_done"
    /\ events[delivered].excluded \cap Catalog # {}
    /\ \A f \in Catalog : Selected(f) /\ ~Filtered(f)

\* ---------------------------------------------------------- task results
LastEvent == events[Len(events)]
TerminalCount == Cardinality({k \in 1 .. Len(events) : events[k].sig \in TerminalSigs})
Faulted == \E k \in 1 .. Len(events) : events[k].tag = "fatal"
CandidateSet == Range(params.file_list)

\* C4: when a task body that met no uncaught fault has run to its end, the
\* events it emitted hold exactly one terminal result event, and that event
\* is the last one.
EveryTaskEndsWithOneTerminalEvent ==
    (pc = "ret" /\ ~Faulted) =>
        /\ TerminalCount = 1
        /\ LastEvent.sig \in TerminalSigs

\* The watermark pass went through its candidates and emitted its result.
WatermarkPassDone ==
    /\ task_type = "WATERMARK_CHECK"
    /\ Len(events) >= 2
    /\ LastEvent.sig = "processing_done"
    /\ events[Len(events) - 1].tag = "watermark_complete"

\* C5: with invert_logic off, a decodable candidate is in the excluded set of
\* a completed pass exactly when its best match score is below the threshold;
\* a score equal to the threshold is a match and the candidate is kept.
WatermarkExcludesBelowThreshold ==
    (WatermarkPassDone /\ ~params.invert_logic) =>
        \A f \in CandidateSet :
            Decodable(f) => (f \in LastEvent.excluded <=> ScoreOf(f) < params.threshold)

\* C5 witness: a completed pass kept a candidate whose score equals the
\* threshold and excluded one whose score is below it.
WatermarkBoundaryKept ==
    /\ WatermarkPassDone
    /\ ~params.invert_logic
    /\ \E f \in CandidateSet :
         Decodable(f) /\ ScoreOf(f) = params.threshold /\ f \notin LastEvent.excluded
    /\ \E g \in CandidateSet :
         Decodable(g) /\ ScoreOf(g) < params.threshold /\ g \in LastEvent.excluded

\* C6: restricted to the decodable candidates, the excluded set of a completed
\* pass is the complement of the excluded set the same template, threshold and
\* candidates give with invert_logic flipped.
WatermarkInvertIsComplement ==
    WatermarkPassDone =>
        LET D == {f \in CandidateSet : Decodable(f)}
        IN LastEvent.excluded \cap D =
             D \ WatermarkExcluded(params.file_list, params.threshold,
                                   ~params.invert_logic)

\* C6 witness: a completed inverted pass over decodable candidates of which
\* one is excluded and one, with a score on the threshold's other side, kept.
WatermarkInvertedSplit ==
    /\ WatermarkPassDone
    /\ params.invert_logic
    /\ \E f \in CandidateSet : Decodable(f) /\ f \in LastEvent.excluded
    /\ \E g \in CandidateSet : Decodable(g) /\ g \notin LastEvent.excluded

\* C7: in a completed pass, with invert_logic on or off, every candidate that
\* could not be decoded or matched is in the excluded set, and every candidate
\* of the list, before or after such a one, got its own verdict.
WatermarkFailClosed ==
    WatermarkPassDone =>
        \A f \in CandidateSet :
            /\ ~Decodable(f) => f \in LastEvent.excluded
            /\ \E k \in 1 .. Len(events) :
                 /\ events[k].sig = "log_message"
                 /\ events[k].item = f
                 /\ events[k].tag = "skipped" <=> ~Decodable(f)

\* C7 witness: a completed pass excluded an undecodable candidate and kept a
\* decodable candidate that comes after it in the list.
WatermarkContinuedAfterFailure ==
    /\ WatermarkPassDone
    /\ \E i, j \in 1 .. Len(params.file_list) :
         /\ i < j
         /\ ~Decodable(params.file_list[i])
         /\ params.file_list[i] \in LastEvent.excluded
         /\ Decodable(params.file_list[j])
         /\ params.file_list[j] \notin LastEvent.excluded

\* The deduplication task emitted its result.
DedupDone ==
    /\ task_type = "ANIMATION_CHECK"
    /\ Len(events) >= 1
    /\ LastEvent.sig = "processing_done"

SimilarPair(i) ==
    HammingDistance(HashOf(params.file_list[i - 1]), HashOf(params.file_list[i]))
        <= params.threshold

\* C8: when the hash of every candidate computes, candidate i-1 is in the
\* excluded set exactly when the distance between its own hash and the hash
\* of candidate i is at most the threshold.
DedupExcludesSimilarPredecessor ==
    (DedupDone /\ \A f \in CandidateSet : Decodable(f)) =>
        \A i \in 2 .. Len(params.file_list) :
            params.file_list[i - 1] \in LastEvent.excluded <=> SimilarPair(i)

\* C8 witness: three candidates at distances 3 and 20 with threshold 10: the
\* result is the first candidate alone.
DedupExample ==
    /\ DedupDone
    /\ Len(params.file_list) = 3
    /\ \A f \in CandidateSet : Decodable(f)
    /\ params.threshold = 10
    /\ HammingDistance(HashOf(params.file_list[1]), HashOf(params.file_list[2])) = 3
    /\ HammingDistance(HashOf(params.file_list[2]), HashOf(params.file_list[3])) = 20
    /\ LastEvent.excluded = {params.file_list[1]}

\* C9: with no candidate or one candidate, the task that has run to its end
\* emitted exactly one terminal event, the last one, and its excluded set is
\* empty.
DedupFewCandidatesEmpty ==
    (task_type = "ANIMATION_CHECK" /\ Len(params.file_list) < 2
        /\ pc \in {"ret", "idle"}) =>
        /\ TerminalCount = 1
        /\ LastEvent = processing_done("animation", {})

\* C9 witness: the task given one candidate has ended and the foreground has
\* applied its empty result.
DedupSingleCandidateDone ==
    /\ task_type = "ANIMATION_CHECK"
    /\ Len(params.file_list) = 1
    /\ pc = "idle"
    /\ delivered = Len(events)
    /\ controls_enabled
    /\ \A f \in Catalog : ~Filtered(f)

\* C10: a candidate whose hash fails, the first one included, only removes
\* the comparisons it takes part in: every adjacent pair of candidates whose
\* hashes both compute is compared, and its outcome is in the result.
DedupFailureSkipsOnlyItsPairs ==
    DedupDone =>
        \A i \in 2 .. Len(params.file_list) :
            (Decodable(params.file_list[i - 1]) /\ Decodable(params.file_list[i])) =>
                (params.file_list[i - 1] \in LastEvent.excluded <=> SimilarPair(i))

\* ------------------------------------------------------- document assembly
\* The assembly task has run to its end.
PdfEnded == task_type = "CREATE_PDF" /\ pc \in {"ret", "idle"}

\* The pages a written document has to hold: the decodable names of the
\* list, in the list's order.
DecodablePages == SelectSeq(params.file_list, Decodable)

\* C11: given an empty list, the assembly task writes no document at any
\* point, and when it has run to its end it has emitted exactly one terminal
\* event, the last one, which reports failure.
PdfEmptyListFails ==
    (task_type = "CREATE_PDF" /\ params.file_list = <<>>) =>
        /\ pdf_file = <<>>
        /\ pc \in {"ret", "idle"} =>
             /\ TerminalCount = 1
             /\ LastEvent = pdf_done("fail")

\* C11 witness: the task given the empty list has ended, and the foreground
\* has handled its failure result.
PdfEmptyListHandled ==
    /\ PdfEnded
    /\ params.file_list = <<>>
    /\ pc = "idle"
    /\ delivered = Len(events)
    /\ controls_enabled
    /\ pdf_file = <<>>

\* C12 as stated: whenever the base page decodes, the task that has run to
\* its end reports success, and the document holds exactly the decodable
\* names of the list in the list's order.
PdfBaseDecodesAlwaysSucceeds ==
    (PdfEnded /\ params.file_list # <<>> /\ Decodable(params.file_list[1])) =>
        /\ LastEvent = pdf_done("success")
        /\ pdf_file = DecodablePages

\* C12 amended: when the base page decodes, either the write of the document
\* succeeds, the result is success and the document holds exactly the
\* decodable names of the list in the list's order, base page first; or the
\* write fails after every page of the list was tried, the result is failure
\* and there is no document.
PdfBaseDecodesWritesDecodablePages ==
    (PdfEnded /\ params.file_list # <<>> /\ Decodable(params.file_list[1])) =>
        /\ TerminalCount = 1
        /\ \/ /\ LastEvent = pdf_done("success")
              /\ pdf_file = DecodablePages
              /\ pdf_file[1] = params.file_list[1]
           \/ /\ LastEvent = pdf_done("fail")
              /\ events[Len(events) - 1].tag = "pdf_error"
              /\ pdf_file = <<>>
              /\ \A k \in 2 .. Len(params.file_list) :
                   \E j \in 1 .. Len(events) :
                     /\ events[j].tag = "add_page"
                     /\ events[j].item = params.file_list[k]

\* C12 witness: three candidates of which the second cannot be decoded; the
\* result is success and the document holds the base page and the third.
PdfSecondOfThreeSkipped ==
    /\ PdfEnded
    /\ Len(params.file_list) = 3
    /\ Decodable(params.file_list[1])
    /\ ~Decodable(params.file_list[2])
    /\ Decodable(params.file_list[3])
    /\ LastEvent = pdf_done("success")
    /\ pdf_file = <<params.file_list[1], params.file_list[3]>>

\* ------------------------------------------------------- detection results
\* C13: every result a detector emits, and the set it is building, holds only
\* names of the candidate list the detector was given.
ExcludedWithinCandidates ==
    /\ task_type \in {"WATERMARK_CHECK", "ANIMATION_CHECK"} =>
         excluded_set \subseteq CandidateSet
    /\ \A k \in 1 .. Len(events) :
         events[k].sig = "processing_done" => events[k].excluded \subseteq CandidateSet

\* C13 witness: a watermark pass over the selected items only, which are not
\* the whole catalog, has emitted a non-empty result.
ExcludedOfPartialScope ==
    /\ task_type = "WATERMARK_CHECK"
    /\ Len(events) >= 1
    /\ LastEvent.sig = "processing_done"
    /\ LastEvent.excluded # {}
    /\ Catalog \ CandidateSet # {}

\* ------------------------------------------------------- selection effects
\* C15: a click on the thumbnail of f negates f's selected flag; when f is
\* now selected its filtered flag is cleared, when f is now unselected its
\* filtered flag is as before; every other item is as before.
ClickTogglesOnlyTheClicked ==
    [][\A f \in DOMAIN disk :
         mousePressEvent(f) =>
            /\ DOMAIN thumbnail_widgets' = Catalog
            /\ thumbnail_widgets'[f].selected = ~Selected(f)
            /\ thumbnail_widgets'[f].selected => ~thumbnail_widgets'[f].filtered
            /\ ~thumbnail_widgets'[f].selected =>
                  thumbnail_widgets'[f].filtered = Filtered(f)
            /\ \A g \in Catalog \ {f} :
                  thumbnail_widgets'[g] = thumbnail_widgets[g]]_vars

\* C15 witness: of two items a detection result filtered, a click has
\* selected one, whose filtered flag is cleared, and the other is still
\* filtered and unselected.
ClickUnfilteredOne ==
    /\ last_op = "click"
    /\ delivered > 0
    /\ events[delivered].sig = "processing_done"
    /\ \E f, g \in Catalog \cap events[delivered].excluded :
         /\ f # g
         /\ Selected(f) /\ ~Filtered(f)
         /\ ~Selected(g) /\ Filtered(g)

\* C16: deselect_all_thumbnails leaves every item unselected and the filtered
\* flag of every item as it was.
DeselectAllIsSoft ==
    [][deselect_all_thumbnails =>
        /\ DOMAIN thumbnail_widgets' = Catalog
        /\ \A f \in Catalog :
             /\ ~thumbnail_widgets'[f].selected
             /\ thumbnail_widgets'[f].filtered = Filtered(f)]_vars

\* C16 witness: deselect-all has acted on a catalog that holds a filtered item
\* and an item that is not filtered.
DeselectAllActed ==
    /\ last_op = "deselect_all"
    /\ \E f \in Catalog : Filtered(f)
    /\ \E g \in Catalog : ~Filtered(g)
    /\ \A f \in Catalog : ~Selected(f)

\* C17: on_processing_done leaves every catalog item of the excluded set
\* filtered and unselected, and every other item as it was.
ResultFiltersOnlyExcluded ==
    [][on_processing_done =>
        /\ DOMAIN thumbnail_widgets' = Catalog
        /\ \A f \in Catalog :
             IF f \in HeadEvent.excluded
             THEN thumbnail_widgets'[f].filtered /\ ~thumbnail_widgets'[f].selected
             ELSE thumbnail_widgets'[f] = thumbnail_widgets[f]]_vars

\* C17 witness: a result has just been applied that filtered one item, while
\* an item filtered by an earlier result and absent from this one is still
\* filtered.
ResultKeptEarlierFilter ==
    /\ last_op = "processing_done"
    /\ delivered > 0
    /\ events[delivered].sig = "processing_done"
    /\ \E f \in Catalog \cap events[delivered].excluded : Filtered(f) /\ ~Selected(f)
    /\ \E g \in Catalog \ events[delivered].excluded : Filtered(g) /\ ~Selected(g)

\* ------------------------------------------------------ dedup after failure
\* The pair that ends in candidate i was compared: its outcome was logged.
PairCompared(i) ==
    \E k \in 1 .. Len(events) :
        /\ events[k].tag \in {"similar", "different"}
        /\ events[k].item = params.file_list[i]

\* C19: when the task has emitted its result, for every candidate c(i) whose
\* hash failed and whose two successors both hash, the pair (c(i+1), c(i+2))
\* was compared.
DedupComparesAfterFailure ==
    DedupDone =>
        \A i \in 1 .. Len(params.file_list) - 2 :
            (/\ ~Decodable(params.file_list[i])
             /\ Decodable(params.file_list[i + 1])
             /\ Decodable(params.file_list[i + 2])) => PairCompared(i + 2)

\* ------------------------------------------------------------ natural order
\* The maximal runs of a name: digit runs and text runs in turn.
RECURSIVE Runs(_)
Runs(s) ==
    IF s = <<>> THEN <<>>
    ELSE LET n == PrefixLen(s, IsDigit(s[1]))
         IN <<[digit |-> IsDigit(s[1]), chars |-> SubSeq(s, 1, n)]>>
                \o Runs(SubSeq(s, n + 1, Len(s)))

\* Two runs are the same: digit runs as integers, text runs without case.
SameRun(x, y) ==
    /\ x.digit = y.digit
    /\ IF x.digit THEN ToInt(x.chars) = ToInt(y.chars)
       ELSE Lower(x.chars) = Lower(y.chars)

\* The rule for names a and b: at the first run in which they differ, the
\* runs are of one kind and a's is the smaller; or they differ in no run and
\* a has fewer runs.
RunsBefore(a, b) ==
    LET ra == Runs(a)
        rb == Runs(b)
        n == IF Len(ra) < Len(rb) THEN Len(ra) ELSE Len(rb)
        differ == {k \in 1 .. n : ~SameRun(ra[k], rb[k])}
    IN IF differ = {} THEN Len(ra) < Len(rb)
       ELSE LET k == CHOOSE i \in differ : \A j \in differ : i <= j
            IN /\ ra[k].digit = rb[k].digit
               /\ IF ra[k].digit THEN ToInt(ra[k].chars) < ToInt(rb[k].chars)
                  ELSE StrLess(Lower(ra[k].chars), Lower(rb[k].chars))

\* No comparison of the keys of a and b meets an int and a str.
KeysComparable(a, b) ==
    LET ka == natural_sort_key(a)
        kb == natural_sort_key(b)
    IN \A k \in 1 .. Len(ka) :
          (k <= Len(kb) /\ \A j \in 1 .. k - 1 : ka[j] = kb[j]) =>
              Comparable(ka[k], kb[k])

Count(x, names) == Cardinality({k \in 1 .. Len(names) : names[k] = x})

\* C18: the sort of a listing by natural_sort_key compares keys without a
\* type error, gives a rearrangement of the listing in which no name stands
\* after a name it has to precede by the rule of runs, and puts img2, img10,
\* img1 in the order img1, img2, img10.
NaturalSortFollowsRuns ==
    [][load_files_sort =>
        /\ \A a, b \in Range(all_files) : KeysComparable(a, b)
        /\ \A x \in Range(all_files) \cup Range(all_files') :
             Count(x, all_files') = Count(x, all_files)
        /\ \A i, j \in 1 .. Len(all_files') :
             i < j => ~RunsBefore(all_files'[j], all_files'[i])
        /\ all_files = ExampleListing => all_files' = ExampleSorted]_vars

\* C18 witness: the listing img2, img10, img1 has been sorted, and the
\* foreground has built its catalog from the sorted list.
ExampleListingSorted ==
    /\ pc = "load_loop"
    /\ all_files = ExampleSorted
    /\ delivered = Len(events)
    /\ all_files_paths = ExampleSorted
    /\ Catalog = Range(ExampleListing)

\* ------------------------------------------------------------- scheduling
\* A request is dispatched to the worker.
Dispatch ==
    \/ select_folder
    \/ run_watermark_check
    \/ run_animation_check
    \/ run_create_pdf

\* C14: the one worker thread runs one task body at a time, and whenever a
\* request is dispatched the body of the task before it has run to its end
\* and every event it emitted has been handled: all events of a task come
\* before any event of a task dispatched later.
TasksDoNotOverlap ==
    [][Dispatch => (pc \in {"idle", "ret"} /\ delivered = Len(events))]_vars

\* C14 witness: after a load task ran to its end and built the catalog, a
\* watermark task is in its loop, and the events since its dispatch are its
\* own.
SecondTaskEmitsAlone ==
    /\ task_type = "WATERMARK_CHECK"
    /\ pc = "wm_loop"
    /\ Catalog # {}
    /\ Len(events) >= 2
    /\ \A k \in 1 .. Len(events) :
         /\ events[k].sig = "log_message"
         /\ events[k].tag \notin {"loading", "load_skipped", "load_complete"}

\* ------------------------------------------------------------ cancellation
\* C20: once closeEvent has requested the interruption of the worker, the
\* next test at the head of a pass of the loading loop ends the loop: no
\* further item is read and no thumbnail_loaded event follows for it.
LoadStopsAtNextCheck ==
    [][(interruption_requested /\ load_files_check) => pc' # "load_item"]_vars

\* ------------------------------------------------------ runs of similar frames
\* Candidates i..j of the list all hash, every adjacent pair of them is within
\* the threshold, and the run goes no further: j is the last candidate, or
\* candidate j+1 does not hash or is farther from j than the threshold.
SimilarRun(i, j) ==
    /\ i <= j
    /\ \A m \in i .. j : Decodable(params.file_list[m])
    /\ \A m \in i + 1 .. j : SimilarPair(m)
    /\ \/ j = Len(params.file_list)
       \/ ~Decodable(params.file_list[j + 1])
       \/ ~SimilarPair(j + 1)

\* C21: in the result the task emitted, of every run of consecutive
\* candidates whose adjacent pairs are within the threshold all but the last
\* are excluded and the last is retained; the last candidate of the list is
\* never excluded.
DedupKeepsLastOfRun ==
    DedupDone =>
        /\ \A i, j \in 1 .. Len(params.file_list) :
             SimilarRun(i, j) =>
                /\ \A m \in i .. j - 1 : params.file_list[m] \in LastEvent.excluded
                /\ params.file_list[j] \notin LastEvent.excluded
        /\ Len(params.file_list) >= 1 =>
             params.file_list[Len(params.file_list)] \notin LastEvent.excluded

\* ------------------------------------------------ assembly, base page fails
\* C22: when the first name of the list cannot be decoded, the assembly task
\* writes no document at any point, and when it has run to its end it has
\* emitted exactly one terminal event, the last one, which reports failure;
\* whether the later names decode makes no difference.
PdfBaseFailureIsFatal ==
    (task_type = "CREATE_PDF" /\ params.file_list # <<>>
        /\ ~Decodable(params.file_list[1])) =>
        /\ pdf_file = <<>>
        /\ pc \in {"ret", "idle"} =>
             /\ TerminalCount = 1
             /\ LastEvent = pdf_done("fail")

\* C22 witness: of three names the first cannot be decoded and the other two
\* can; the task has ended in failure without a document, and the foreground
\* has handled the result.
PdfBaseOfThreeFails ==
    /\ PdfEnded
    /\ Len(params.file_list) = 3
    /\ ~Decodable(params.file_list[1])
    /\ Decodable(params.file_list[2])
    /\ Decodable(params.file_list[3])
    /\ LastEvent = pdf_done("fail")
    /\ delivered = Len(events)
    /\ controls_enabled
    /\ pdf_file = <<>>

\* ------------------------------------------------------- order of events
\* The events of the running task that are about one item.
ItemEvents == {k \in 1 .. Len(events) : events[k].item # 0}

\* The list the running task goes through: the list of its files_loaded
\* event for the loading task, the list it was given for the other tasks.
TaskList ==
    IF task_type = "LOAD_FILES"
    THEN LET loaded == {k \in 1 .. Len(events) : events[k].sig = "files_loaded"}
         IN IF loaded = {} THEN <<>> ELSE events[CHOOSE k \in loaded : TRUE].files
    ELSE params.file_list

PositionIn(list, f) == CHOOSE i \in 1 .. Len(list) : list[i] = f

\* C23: among the events a task has emitted, the events about items follow
\* the order of the task's list; in a loading task the files_loaded event
\* comes before all of them; and a terminal event comes after all of them.
EventsFollowListOrder ==
    /\ \A k \in ItemEvents :
         /\ events[k].item \in Range(TaskList)
         /\ task_type = "LOAD_FILES" =>
               \E j \in 1 .. k - 1 : events[j].sig = "files_loaded"
    /\ \A k, l \in ItemEvents :
         k < l => PositionIn(TaskList, events[k].item)
                     <= PositionIn(TaskList, events[l].item)
    /\ \A k \in 1 .. Len(events) :
         events[k].sig \in TerminalSigs => \A l \in ItemEvents : l < k

\* C23 witness: a loading task over two files has emitted the list, then an
\* event for the first file, then one for the second, then loading_finished.
LoadEventsInOrder ==
    /\ task_type = "LOAD_FILES"
    /\ Len(events) = 6
    /\ events[2].sig = "files_loaded"
    /\ Len(events[2].files) = 2
    /\ events[3].item = events[2].files[1]
    /\ events[4].item = events[2].files[2]
    /\ events[3].sig = "thumbnail_loaded"
    /\ events[6].sig = "loading_finished"

\* ------------------------------------------------- who writes the item state
\* A selection operation of the foreground.
SelectionOp ==
    \/ \E f \in DOMAIN disk : mousePressEvent(f)
    \/ reset_all_thumbnails
    \/ select_visible_thumbnails
    \/ deselect_all_thumbnails

\* The flags of an item that stays in the catalog change.
ItemStateChanges ==
    \E f \in Catalog \cap DOMAIN thumbnail_widgets' :
        thumbnail_widgets'[f] # thumbnail_widgets[f]

\* C24: no step of the worker changes thumbnail_widgets; while a task is in
\* flight (the controls are disabled) the flags of an item change only by a
\* selection operation of the foreground or by the handling of the task's
\* result; and a result is applied only by the handling of a processing_done
\* event that is the last event the task emitted.
OnlyForegroundWritesItems ==
    [][/\ Worker => thumbnail_widgets' = thumbnail_widgets
       /\ (~controls_enabled /\ ItemStateChanges) =>
             (SelectionOp \/ on_processing_done)
       /\ on_processing_done =>
             /\ HeadEvent.sig = "processing_done"
             /\ delivered + 1 = Len(events)
             /\ pc \in {"ret", "idle"}]_vars

\* C24 witness: while the deduplication task is in its loop, a click has
\* unselected one of the candidates the task was given.
ClickDuringDedup ==
    /\ task_type = "ANIMATION_CHECK"
    /\ pc = "anim_loop"
    /\ ~controls_enabled
    /\ last_op = "click"
    /\ \E f \in CandidateSet : ~Selected(f)

\* ------------------------------------------------------ reloading a folder
\* The files_loaded events the foreground has handled since the dispatch.
HandledListings == {k \in 1 .. delivered : events[k].sig = "files_loaded"}

\* C25: once a folder load was requested the earlier catalog is gone, and
\* from the handling of the new list of files on, the catalog holds exactly
\* the files of that list, each selected and not filtered.
ReloadReplacesCatalog ==
    task_type = "LOAD_FILES" =>
        IF HandledListings = {} THEN Catalog = {}
        ELSE /\ \A k \in HandledListings : Catalog = Range(events[k].files)
             /\ \A f \in Catalog : Selected(f) /\ ~Filtered(f)

\* C25 witness: the new list holds some but not all of the files of the
\* earlier catalog, whose items were all filtered; the catalog now holds the
\* files of the list only, selected and not filtered.
ReloadedPartOfFolder ==
    /\ task_type = "LOAD_FILES"
    /\ last_op = "files_loaded"
    /\ HandledListings # {}
    /\ Catalog # {}
    /\ Files \ Catalog # {}
    /\ \A f \in Catalog : Selected(f) /\ ~Filtered(f)

\* ------------------------------------------------- dispatch and thread start
\* The load found no folder: the one task body that ends without a terminal
\* event (see C4).
FolderNotFound == \E k \in 1 .. Len(events) : events[k].tag = "folder_not_found"

\* C26: every dispatched request has its task body run to the terminal
\* event: when the worker thread has ended after a dispatch, the events since
\* that dispatch hold the task's terminal event (the load of a missing folder
\* and a body ended by a fault aside).
DispatchedTaskReachesTerminal ==
    (pc = "idle" /\ task_type # "" /\ ~Faulted /\ ~FolderNotFound) =>
        TerminalCount >= 1

\* ------------------------------------------------------ unreadable template
\* The watermark pass in progress or last run could not read its template.
TemplateUnreadable == \E k \in 1 .. Len(events) : events[k].tag = "template_unreadable"

\* C27: a watermark pass whose template cannot be read emits its failure
\* message and then the terminal processing_done event with an empty excluded
\* set, and nothing else: the loop over the candidates is never entered.  The
\* handling of that event leaves the flags of every item as they were.
TemplateFailureChangesNothing ==
    [][TemplateUnreadable' =>
          /\ events' = <<log_message("template_unreadable", 0),
                         processing_done("watermark", {})>>
          /\ pc' \in {"ret", "idle"}
          /\ on_processing_done => thumbnail_widgets' = thumbnail_widgets]_vars

\* C27 witness: the result of a pass that could not read its template has
\* been applied, and a candidate of that pass is still selected and not
\* filtered.
TemplateFailureApplied ==
    /\ TemplateUnreadable
    /\ delivered = Len(events)
    /\ last_op = "processing_done"
    /\ controls_enabled
    /\ \E f \in CandidateSet : f \in Catalog /\ Selected(f) /\ ~Filtered(f)

\* ------------------------------------------------- the list a task is given
\* The list of files is strictly increasing in the natural order of the names.
InNaturalOrder(list) ==
    \A i, j \in 1 .. Len(list) :
        i < j => KeyLess(FileKey[list[i]], FileKey[list[j]])

\* C28: the list handed to the similar-frame pass or to the PDF task holds
\* exactly the items selected at the request, in natural order, and none that
\* is filtered at the request; changes of the selection while the task runs
\* leave the list as it is, and the task body works on that list.
TaskListIsSelectionAtRequest ==
    [][/\ (run_animation_check \/ run_create_pdf) =>
             /\ Range(params'.file_list) = {f \in Catalog : Selected(f)}
             /\ InNaturalOrder(params'.file_list)
             /\ \A f \in Range(params'.file_list) : ~Filtered(f)
       /\ SelectionOp => params' = params
       /\ (task_type' \in {"ANIMATION_CHECK", "CREATE_PDF"} /\ pc' \in {"anim_loop", "pdf_loop"}) =>
             all_files' = params'.file_list]_vars

\* C28 witness: while the PDF task works on its list, a click has unselected
\* one of its pages; another item of the catalog was filtered at the request
\* and is not in the list.
ClickDuringPdf ==
    /\ task_type = "CREATE_PDF"
    /\ pc = "pdf_loop"
    /\ last_op = "click"
    /\ all_files = params.file_list
    /\ \E f \in CandidateSet : f \in Catalog /\ ~Selected(f)
    /\ \E g \in Catalog : Filtered(g) /\ g \notin CandidateSet
====
